---- MODULE Spec2Model ----
(***************************************************************************)
(* Package watchman: a polling file watcher.                               *)
(*                                                                         *)
(* The repository holds two copies of the package:                         *)
(*   src/pkg/watchman/watchman.go  and  src/unnamed/part_000.              *)
(* They differ in NewFile (part_000 does not take the initial snapshot)    *)
(* and in publishChanges (part_000 does not store the new snapshot).       *)
(* The variable pkg says which copy the program is built from; every       *)
(* other operation is the same text in both copies.  Spec is a program     *)
(* built from watchman.go, SpecPart000 one built from part_000, SpecNew    *)
(* applies the constructors of either copy to drawn inputs, and SpecTags   *)
(* is the program of watchman.go with the tags and Find on MaxTagged       *)
(* descriptors.                                                            *)
(*                                                                         *)
(* Goroutines: the caller (New, NewFile, AddFile, RemoveFile, Start, Stop, *)
(* and the receives on the two channels), the scan loop started by Start,  *)
(* the runtime's ticker, and the environment that modifies the files.      *)
(* The calls of the caller are atomic steps; the scan loop takes one step  *)
(* per select, per descriptor examined and per channel send.               *)
(***************************************************************************)
EXTENDS Integers, Sequences, FiniteSets

(* ---- bounds ---- *)
MaxFiles == 2        \* descriptors NewFile may construct
MaxRegistry == 2     \* length of w.files
MaxByte == 1         \* a file is empty or holds one byte of 1..MaxByte
MaxDuration == 3     \* durations given to WithPollInterval are 0..MaxDuration
MaxOpts == 2         \* options given to New
MaxTagged == 1       \* descriptors of the watcher with tags and queries

(* ---- program constants ---- *)
DefaultPollInterval == 10          \* 10 * time.Second
Nil == <<>>                        \* a nil []byte; bytes.Equal(nil, []byte{}) is true
ErrInvalidFile == "invalid file"
ErrInvalidDuration == "invalid duration"
NoErr == "nil"
ENOENT == "no such file or directory"   \* os.Stat / os.Open on a missing path
EISDIR == "is a directory"              \* ioutil.ReadAll on a directory

Pkgs == {"watchman.go", "part_000"}
Paths == {"a.txt"}
Missing == [kind |-> "missing", data |-> <<>>]
Dir == [kind |-> "dir", data |-> <<>>]
RegularFile(c) == [kind |-> "file", data |-> c]

RECURSIVE SeqsUpTo(_, _)
SeqsUpTo(S, n) ==
  IF n = 0 THEN {<<>>}
  ELSE LET shorter == SeqsUpTo(S, n - 1)
       IN shorter \cup {Append(s, x) : s \in {t \in shorter : Len(t) = n - 1}, x \in S}

Contents == {<<>>} \cup {<<b>> : b \in 1..MaxByte}
DiskStates == {Missing, Dir} \cup {RegularFile(c) : c \in Contents}
Range(s) == {s[k] : k \in 1..Len(s)}

VARIABLES
  pkg,           \* which copy of the package is built
  disk,          \* the file system: path -> Missing, Dir or RegularFile(content)
  file,          \* the File structs constructed so far; a *File is an index
  since,         \* history, per File: "construct" / "scan" while the file is
                 \* unmodified since NewFile / since the scan loop last read
                 \* it, "modified" otherwise
  removed,       \* history, per File: "yes" once RemoveFile(file) has returned
                 \* and every pass begun before it is over, "inflight" while
                 \* such a pass still runs, "no" before and after an AddFile
  opts,          \* the options given to New
  constructed,   \* New has returned a *Watchman
  pollInterval,  \* w.pollInterval
  files,         \* w.files: [arr |-> backing array, len |-> length]; cap = Len(arr)
  ticker,        \* w.ticker: "nil", "running", "stopped"
  tick,          \* a tick is buffered in w.ticker.C
  stopChan, errChan, eventChan,   \* "nil", "open", "closed"
  pc,            \* the scan loop: "idle", "select", "range", "sendErr",
                 \* "sendEvent", "done", "panic"
  rng,           \* the range statement of publishChanges: the slice header it
                 \* evaluated once, [arr, len, shared] and its index i
  f,             \* the range variable f while its error is being sent, else 0
  event,         \* event.files of the pass
  err,           \* the error being sent on errChan
  pass,          \* history of the pass in progress: the descriptors its
                 \* iterations have examined (seen) and sent an error for
                 \* (errs), in order; an AddFile or RemoveFile has run during
                 \* its range loop (mutated); the descriptors registered when
                 \* it began and not passed to RemoveFile since (stayed)
  ret,           \* a NewFile call and what it returned: [fileName, f, err]
  tag,           \* per File: f.tag
  found          \* the last Find or GetTag call and what it returned

vars == <<pkg, disk, file, since, removed, opts, constructed, pollInterval, files, ticker, tick,
          stopChan, errChan, eventChan, pc, rng, f, event, err, pass, ret, tag, found>>

watcherVars == <<files, ticker, tick, stopChan, errChan, eventChan>>
loopVars == <<pc, rng, f, event, err, pass>>
newVars == <<opts, constructed, pollInterval, ret>>
queryVars == <<tag, found>>

(* ---- content strategies ---- *)
\* ReadFile: ioutil.ReadAll(f); fails on a directory.
ReadFile(s) ==
  IF s = Dir THEN [data |-> Nil, err |-> EISDIR] ELSE [data |-> s.data, err |-> NoErr]

\* os.Stat(fileName) / os.Open(fileName)
Stat(s) == IF s = Missing THEN ENOENT ELSE NoErr
Open(s) == IF s = Missing THEN ENOENT ELSE NoErr

\* bytes.Equal
BytesEqual(a, b) == a = b

\* a panic of the scan loop has ended the program
Crashed == pc = "panic"

(* ---- New and its options ---- *)
\* WithPollInterval(duration) applied to pollInterval p: [p, err]
WithPollInterval(duration, p) ==
  IF duration = 0 THEN [p |-> p, err |-> ErrInvalidDuration]
  ELSE [p |-> duration, err |-> NoErr]

\* the loop over opts in New: the error of an option is dropped
RECURSIVE ApplyOpts(_, _)
ApplyOpts(os, p) ==
  IF os = <<>> THEN p
  ELSE ApplyOpts(Tail(os), WithPollInterval(Head(os), p).p)

\* New: the options, then the default
NewPollInterval(os) ==
  LET p == ApplyOpts(os, 0)
  IN IF p = 0 THEN DefaultPollInterval ELSE p

OptSeqs == SeqsUpTo(0..MaxDuration, MaxOpts)

New ==
  /\ ~constructed
  /\ constructed' = TRUE
  /\ pollInterval' = NewPollInterval(opts)
  /\ UNCHANGED <<pkg, queryVars, disk, file, since, removed, opts, ret, watcherVars, loopVars>>

(* ---- NewFile ---- *)
NoFile == [fileName |-> "", fileData |-> Nil]

\* watchman.go: stat, open, read the initial file data
NewFileResult(s, fileName) ==
  IF Stat(s) # NoErr THEN [f |-> NoFile, err |-> Stat(s)]
  ELSE IF Open(s) # NoErr THEN [f |-> NoFile, err |-> Open(s)]
  ELSE IF ReadFile(s).err # NoErr THEN [f |-> NoFile, err |-> ReadFile(s).err]
  ELSE [f |-> [fileName |-> fileName, fileData |-> ReadFile(s).data], err |-> NoErr]

\* part_000: stat only; fileData stays nil
NewFileResultPart000(s, fileName) ==
  IF Stat(s) # NoErr THEN [f |-> NoFile, err |-> Stat(s)]
  ELSE [f |-> [fileName |-> fileName, fileData |-> Nil], err |-> NoErr]

NewFileReturn(fileName) ==
  IF pkg = "watchman.go" THEN NewFileResult(disk[fileName], fileName)
  ELSE NewFileResultPart000(disk[fileName], fileName)

\* a call that returns a *File; a call that returns an error changes nothing
NewFile(fileName) ==
  /\ ~Crashed
  /\ Len(file) < MaxFiles
  /\ NewFileReturn(fileName).err = NoErr
  /\ file' = Append(file, NewFileReturn(fileName).f)
  /\ since' = Append(since, "construct")
  /\ removed' = Append(removed, "no")
  /\ tag' = Append(tag, "")
  /\ UNCHANGED <<pkg, found, disk, newVars, watcherVars, loopVars>>

\* any call, with what it returned
CallNewFile(fileName) ==
  /\ ret' = [fileName |-> fileName, f |-> NewFileReturn(fileName).f,
             err |-> NewFileReturn(fileName).err]
  /\ UNCHANGED <<pkg, queryVars, disk, file, since, removed, opts, constructed, pollInterval,
                 watcherVars, loopVars>>

(* ---- the environment ---- *)
Modify(p, s) ==
  /\ s # disk[p]
  /\ disk' = [disk EXCEPT ![p] = s]
  /\ since' = [d \in 1..Len(file) |->
                 IF file[d].fileName = p THEN "modified" ELSE since[d]]
  /\ UNCHANGED <<pkg, queryVars, file, removed, newVars, watcherVars, loopVars>>

(* ---- the registry ---- *)
\* the elements of the slice w.files
Registered == SubSeq(files.arr, 1, files.len)

\* append(w.files, file): in place when cap allows, else a copy into a new
\* array of doubled capacity; the elements past len keep no pointer
Grow(arr) ==
  LET newcap == IF Len(arr) = 0 THEN 1 ELSE 2 * Len(arr)
  IN [k \in 1..newcap |-> IF k <= Len(arr) THEN arr[k] ELSE 0]

\* the range loop of publishChanges is running
InRange == pc \in {"range", "sendErr"}

AddFile(d) ==
  /\ ~Crashed
  /\ files.len < MaxRegistry
  /\ IF files.len < Len(files.arr)
     THEN /\ files' = [arr |-> [files.arr EXCEPT ![files.len + 1] = d],
                       len |-> files.len + 1]
          /\ rng' = rng
     ELSE /\ files' = [arr |-> [Grow(files.arr) EXCEPT ![files.len + 1] = d],
                       len |-> files.len + 1]
          \* a range statement in progress keeps the old array
          /\ rng' = IF rng.shared
                    THEN [rng EXCEPT !.arr = files.arr, !.shared = FALSE]
                    ELSE rng
  /\ removed' = [removed EXCEPT ![d] = "no"]
  /\ pass' = IF InRange THEN [pass EXCEPT !.mutated = TRUE] ELSE pass
  /\ UNCHANGED <<pkg, queryVars, disk, file, since, newVars, ticker, tick,
                 stopChan, errChan, eventChan, pc, f, event, err>>

\* the index of the first element of w.files equal to d, 0 if there is none
FirstIndex(d) ==
  IF \E k \in 1..files.len : files.arr[k] = d
  THEN CHOOSE k \in 1..files.len :
         /\ files.arr[k] = d
         /\ \A j \in 1..(k - 1) : files.arr[j] # d
  ELSE 0

\* publishChanges is running
InPass == pc \in {"range", "sendErr", "sendEvent"}

\* a variant of RemoveFile that shortens the slice without the swap
RemoveFileDropsLast(d) ==
  /\ ~Crashed
  /\ LET idx == FirstIndex(d)
     IN IF idx = 0
        THEN files' = files
        ELSE files' = [arr |-> files.arr, len |-> files.len - 1]
  /\ removed' = [removed EXCEPT ![d] = IF InPass THEN "inflight" ELSE "yes"]
  /\ pass' = IF InRange
             THEN [pass EXCEPT !.mutated = TRUE, !.stayed = @ \ {d}]
             ELSE pass
  /\ UNCHANGED <<pkg, queryVars, disk, file, since, newVars, ticker, tick,
                 stopChan, errChan, eventChan, pc, rng, f, event, err>>

\* swap with the last element and shorten; the last slot of the array keeps
\* its pointer
RemoveFile(d) ==
  /\ ~Crashed
  /\ LET idx == FirstIndex(d)
     IN IF idx = 0
        THEN files' = files
        ELSE files' = [arr |-> [files.arr EXCEPT ![idx] = files.arr[files.len]],
                       len |-> files.len - 1]
  /\ removed' = [removed EXCEPT ![d] = IF InPass THEN "inflight" ELSE "yes"]
  /\ pass' = IF InRange
             THEN [pass EXCEPT !.mutated = TRUE, !.stayed = @ \ {d}]
             ELSE pass
  /\ UNCHANGED <<pkg, queryVars, disk, file, since, newVars, ticker, tick,
                 stopChan, errChan, eventChan, pc, rng, f, event, err>>

(* ---- tags and Find ---- *)
Tags == {"", "t"}

NoQuery == [call |-> "", tag |-> "", files |-> <<>>]

\* a variant of SetTag that also drops the stored file data
SetTagDropsData(d, t) ==
  /\ ~Crashed
  /\ tag' = [tag EXCEPT ![d] = t]
  /\ file' = [file EXCEPT ![d].fileData = Nil]
  /\ UNCHANGED <<pkg, found, disk, since, removed, newVars, watcherVars, loopVars>>

\* f.SetTag(t)
SetTag(d, t) ==
  /\ ~Crashed
  /\ tag' = [tag EXCEPT ![d] = t]
  /\ UNCHANGED <<pkg, found, disk, file, since, removed, newVars, watcherVars, loopVars>>

\* f.GetTag()
GetTag(d) ==
  /\ ~Crashed
  /\ found' = [call |-> "GetTag", tag |-> tag[d], files |-> <<>>]
  /\ UNCHANGED <<pkg, tag, disk, file, since, removed, newVars, watcherVars, loopVars>>

\* the loop of Find over the slice s with the filter "the tag is t"
RECURSIVE FindIn(_, _)
FindIn(s, t) ==
  IF s = <<>> THEN <<>>
  ELSE IF tag[Head(s)] = t THEN <<Head(s)>> \o FindIn(Tail(s), t)
  ELSE FindIn(Tail(s), t)

\* w.Find(filter), the filter being "the tag is t"
Find(t) ==
  /\ ~Crashed
  /\ found' = [call |-> "Find", tag |-> "", files |-> FindIn(Registered, t)]
  /\ UNCHANGED <<pkg, tag, disk, file, since, removed, newVars, watcherVars, loopVars>>

(* ---- Start, Stop, the ticker ---- *)
\* Start has no guard: it installs a new ticker and new channels and spawns
\* the scan loop, also on a watcher that was stopped. It is called here while
\* no scan loop is alive (never started, or the loop has returned); a Start
\* beside a live loop is left to the caller and not modelled.
Start ==
  /\ constructed
  /\ pc \in {"idle", "done"}
  /\ ticker' = "running"
  /\ tick' = FALSE
  /\ eventChan' = "open"
  /\ errChan' = "open"
  /\ stopChan' = "open"
  /\ pc' = "select"
  /\ UNCHANGED <<pkg, queryVars, disk, file, since, removed, newVars, files,
                 rng, f, event, err, pass>>

\* Stop on a watcher that is not running (never started, or stopped before)
\* is left to the caller and not modelled
Stop ==
  /\ stopChan = "open"
  /\ stopChan' = "closed"
  /\ errChan' = "closed"
  /\ eventChan' = "closed"
  /\ ticker' = "stopped"
  /\ UNCHANGED <<pkg, queryVars, disk, file, since, removed, newVars, files, tick,
                 loopVars>>

\* the runtime sends on ticker.C (capacity 1) and drops the tick when it is full
Tick ==
  /\ ticker = "running"
  /\ ~tick
  /\ tick' = TRUE
  /\ UNCHANGED <<pkg, queryVars, disk, file, since, removed, newVars, files, ticker,
                 stopChan, errChan, eventChan, loopVars>>

(* ---- the scan loop ---- *)
NoRange == [arr |-> <<>>, len |-> 0, shared |-> FALSE, i |-> 0]
NoPass == [seen |-> <<>>, errs |-> <<>>, mutated |-> FALSE, stayed |-> {}]

\* select, case <-w.stopChan: return
SelectStop ==
  /\ pc = "select"
  /\ stopChan = "closed"
  /\ pc' = "done"
  /\ UNCHANGED <<pkg, queryVars, disk, file, since, removed, newVars, watcherVars,
                 rng, f, event, err, pass>>

\* a variant of SelectTick that takes the tick while the Event is being sent
SelectTickEarly ==
  /\ pc \in {"select", "sendEvent"}
  /\ tick
  /\ tick' = FALSE
  /\ pc' = "range"
  /\ event' = <<>>
  /\ rng' = [arr |-> <<>>, len |-> files.len, shared |-> TRUE, i |-> 1]
  /\ pass' = [NoPass EXCEPT !.stayed = Range(Registered)]
  /\ removed' = [d \in 1..Len(file) |->
                   IF removed[d] = "inflight" THEN "yes" ELSE removed[d]]
  /\ UNCHANGED <<pkg, queryVars, disk, file, since, newVars, files, ticker,
                 stopChan, errChan, eventChan, f, err>>

\* select, case <-w.ticker.C: publishChanges begins; the range statement
\* evaluates w.files once
SelectTick ==
  /\ pc = "select"
  /\ tick
  /\ tick' = FALSE
  /\ pc' = "range"
  /\ event' = <<>>
  /\ rng' = [arr |-> <<>>, len |-> files.len, shared |-> TRUE, i |-> 1]
  /\ pass' = [NoPass EXCEPT !.stayed = Range(Registered)]
  /\ removed' = [d \in 1..Len(file) |->
                   IF removed[d] = "inflight" THEN "yes" ELSE removed[d]]
  /\ UNCHANGED <<pkg, queryVars, disk, file, since, newVars, files, ticker,
                 stopChan, errChan, eventChan, f, err>>

\* the element the range statement reads at its index
RangeElem == IF rng.shared THEN files.arr[rng.i] ELSE rng.arr[rng.i]

\* a variant of Examine that clears the stored data when the open fails
ExamineClearsOnError(fl, s) ==
  IF Open(s) # NoErr
  THEN [err |-> Open(s), changed |-> FALSE, fileData |-> Nil]
  ELSE IF ReadFile(s).err # NoErr
  THEN [err |-> ReadFile(s).err, changed |-> FALSE, fileData |-> fl.fileData]
  ELSE IF ~BytesEqual(ReadFile(s).data, fl.fileData)
  THEN [err |-> NoErr, changed |-> TRUE, fileData |-> ReadFile(s).data]
  ELSE [err |-> NoErr, changed |-> FALSE, fileData |-> fl.fileData]

\* what one iteration does with the File fl, from the state s of its file:
\* [err, changed, fileData]
Examine(fl, s) ==
  IF Open(s) # NoErr
  THEN [err |-> Open(s), changed |-> FALSE, fileData |-> fl.fileData]
  ELSE IF ReadFile(s).err # NoErr
  THEN [err |-> ReadFile(s).err, changed |-> FALSE, fileData |-> fl.fileData]
  ELSE IF ~BytesEqual(ReadFile(s).data, fl.fileData)
  THEN [err |-> NoErr, changed |-> TRUE, fileData |-> ReadFile(s).data]
  ELSE [err |-> NoErr, changed |-> FALSE, fileData |-> fl.fileData]

\* part_000: the new data is not stored
ExaminePart000(fl, s) ==
  IF Open(s) # NoErr
  THEN [err |-> Open(s), changed |-> FALSE, fileData |-> fl.fileData]
  ELSE IF ReadFile(s).err # NoErr
  THEN [err |-> ReadFile(s).err, changed |-> FALSE, fileData |-> fl.fileData]
  ELSE IF ~BytesEqual(ReadFile(s).data, fl.fileData)
  THEN [err |-> NoErr, changed |-> TRUE, fileData |-> fl.fileData]
  ELSE [err |-> NoErr, changed |-> FALSE, fileData |-> fl.fileData]

ExamineResult(d) ==
  IF pkg = "watchman.go" THEN Examine(file[d], disk[file[d].fileName])
  ELSE ExaminePart000(file[d], disk[file[d].fileName])

\* a variant of Iterate on a buffered error channel: the send returns at once
IterateBuffered ==
  /\ pc = "range"
  /\ rng.i <= rng.len
  /\ LET d == RangeElem
         r == ExamineResult(d)
     IN /\ f' = IF r.err # NoErr THEN d ELSE 0
        /\ file' = [file EXCEPT ![d].fileData = r.fileData]
        /\ event' = IF r.changed THEN Append(event, d) ELSE event
        /\ pass' = [pass EXCEPT !.seen = Append(@, d),
                                !.errs = IF r.err # NoErr THEN Append(@, d) ELSE @]
        /\ rng' = [rng EXCEPT !.i = rng.i + 1]
        /\ IF r.err # NoErr
           THEN /\ err' = r.err
                /\ UNCHANGED <<pc, since>>
           ELSE /\ since' = [since EXCEPT ![d] = "scan"]
                /\ UNCHANGED <<pc, err>>
  /\ UNCHANGED <<pkg, queryVars, disk, removed, newVars, watcherVars>>

\* one iteration of the range loop, up to its send or its end
Iterate ==
  /\ pc = "range"
  /\ rng.i <= rng.len
  /\ LET d == RangeElem
         r == ExamineResult(d)
     IN /\ f' = IF r.err # NoErr THEN d ELSE 0
        /\ file' = [file EXCEPT ![d].fileData = r.fileData]
        /\ event' = IF r.changed THEN Append(event, d) ELSE event
        /\ pass' = [pass EXCEPT !.seen = Append(@, d),
                                !.errs = IF r.err # NoErr THEN Append(@, d) ELSE @]
        /\ IF r.err # NoErr
           THEN /\ err' = r.err
                /\ pc' = "sendErr"
                /\ UNCHANGED <<rng, since>>
           ELSE /\ rng' = [rng EXCEPT !.i = rng.i + 1]
                /\ since' = [since EXCEPT ![d] = "scan"]
                /\ UNCHANGED <<pc, err>>
  /\ UNCHANGED <<pkg, queryVars, disk, removed, newVars, watcherVars>>

\* a variant of RecvErr that returns from publishChanges after the send
RecvErrAborts ==
  /\ pc = "sendErr"
  /\ errChan = "open"
  /\ pc' = "range"
  /\ err' = NoErr
  /\ f' = 0
  /\ rng' = [rng EXCEPT !.i = rng.len + 1]
  /\ UNCHANGED <<pkg, queryVars, disk, file, since, removed, newVars, watcherVars, event, pass>>

\* w.errChan <- err completes when the consumer receives
RecvErr ==
  /\ pc = "sendErr"
  /\ errChan = "open"
  /\ pc' = "range"
  /\ err' = NoErr
  /\ f' = 0
  /\ rng' = [rng EXCEPT !.i = rng.i + 1]
  /\ UNCHANGED <<pkg, queryVars, disk, file, since, removed, newVars, watcherVars, event, pass>>

\* a variant of EndRange without the test of len(event.files)
EndRangeSendsAlways ==
  /\ pc = "range"
  /\ rng.i > rng.len
  /\ pc' = "sendEvent"
  /\ rng' = NoRange
  /\ pass' = NoPass
  /\ UNCHANGED <<pkg, queryVars, disk, file, since, removed, newVars, watcherVars, f, event, err>>

\* after the loop: if len(event.files) > 0 { w.eventChan <- event }
EndRange ==
  /\ pc = "range"
  /\ rng.i > rng.len
  /\ pc' = IF Len(event) > 0 THEN "sendEvent" ELSE "select"
  /\ rng' = NoRange
  /\ pass' = NoPass
  /\ UNCHANGED <<pkg, queryVars, disk, file, since, removed, newVars, watcherVars, f, event, err>>

RecvEvent ==
  /\ pc = "sendEvent"
  /\ eventChan = "open"
  /\ pc' = "select"
  /\ event' = <<>>
  /\ UNCHANGED <<pkg, queryVars, disk, file, since, removed, newVars, watcherVars,
                 rng, f, err, pass>>

\* a send on a closed channel panics, also when the channel is closed while
\* the send is blocked
SendOnClosed ==
  /\ \/ pc = "sendErr" /\ errChan = "closed"
     \/ pc = "sendEvent" /\ eventChan = "closed"
  /\ pc' = "panic"
  /\ UNCHANGED <<pkg, queryVars, disk, file, since, removed, newVars, watcherVars,
                 rng, f, event, err, pass>>

(* ---- specifications ---- *)
NoReturn == [fileName |-> "", f |-> NoFile, err |-> NoErr]

\* The watcher: w is New() without options, nothing is watched yet.
InitOf(copy) ==
  /\ pkg = copy
  /\ disk = [p \in Paths |-> Missing]
  /\ file = <<>>
  /\ since = <<>>
  /\ removed = <<>>
  /\ opts = <<>>
  /\ constructed = TRUE
  /\ pollInterval = NewPollInterval(<<>>)
  /\ files = [arr |-> <<>>, len |-> 0]
  /\ ticker = "nil"
  /\ tick = FALSE
  /\ stopChan = "nil"
  /\ errChan = "nil"
  /\ eventChan = "nil"
  /\ pc = "idle"
  /\ rng = NoRange
  /\ f = 0
  /\ event = <<>>
  /\ err = NoErr
  /\ pass = NoPass
  /\ ret = NoReturn
  /\ tag = <<>>
  /\ found = NoQuery

Next ==
  \/ \E p \in Paths : NewFile(p)
  \/ \E p \in Paths, s \in DiskStates : Modify(p, s)
  \/ \E d \in 1..Len(file) : AddFile(d)
  \/ \E d \in 1..Len(file) : RemoveFile(d)
  \/ Start
  \/ Stop
  \/ Tick
  \/ SelectStop
  \/ SelectTick
  \/ Iterate
  \/ RecvErr
  \/ EndRange
  \/ RecvEvent
  \/ SendOnClosed

Init == InitOf("watchman.go")
InitPart000 == InitOf("part_000")

Spec == Init /\ [][Next]_vars
SpecPart000 == InitPart000 /\ [][Next]_vars

\* The watcher with the tags of its descriptors and the queries, on at most
\* MaxTagged descriptors.
NextTags ==
  \/ \E p \in Paths : Len(file) < MaxTagged /\ NewFile(p)
  \/ \E p \in Paths, s \in DiskStates : Modify(p, s)
  \/ \E d \in 1..Len(file) : AddFile(d)
  \/ \E d \in 1..Len(file) : RemoveFile(d)
  \/ \E d \in 1..Len(file), t \in Tags : SetTag(d, t)
  \/ \E d \in 1..Len(file) : GetTag(d)
  \/ \E t \in Tags : Find(t)
  \/ Start
  \/ Stop
  \/ Tick
  \/ SelectStop
  \/ SelectTick
  \/ Iterate
  \/ RecvErr
  \/ EndRange
  \/ RecvEvent
  \/ SendOnClosed

SpecTags == Init /\ [][NextTags]_vars

\* The constructors: the inputs of New and NewFile are drawn, the calls applied.
InitNew ==
  /\ pkg \in Pkgs
  /\ disk \in [Paths -> DiskStates]
  /\ file = <<>>
  /\ since = <<>>
  /\ removed = <<>>
  /\ opts \in OptSeqs
  /\ constructed = FALSE
  /\ pollInterval = 0
  /\ files = [arr |-> <<>>, len |-> 0]
  /\ ticker = "nil"
  /\ tick = FALSE
  /\ stopChan = "nil"
  /\ errChan = "nil"
  /\ eventChan = "nil"
  /\ pc = "idle"
  /\ rng = NoRange
  /\ f = 0
  /\ event = <<>>
  /\ err = NoErr
  /\ pass = NoPass
  /\ ret = NoReturn
  /\ tag = <<>>
  /\ found = NoQuery

NextNew ==
  \/ New
  \/ \E p \in Paths : CallNewFile(p)

SpecNew == InitNew /\ [][NextNew]_vars

(* ---- what a step of the scan loop does ---- *)
\* the iteration of this step examines descriptor d
IterateOn(d) == Iterate /\ RangeElem = d

\* the open and the strategy of descriptor d succeed on the file as it is now
ReadsNow(d) == ExamineResult(d).err = NoErr

\* the snapshot the strategy of descriptor d yields now
SnapshotNow(d) == ReadFile(disk[file[d].fileName]).data

(* ---- C1 ---- *)
\* C1: when a pass reads a registered descriptor and the strategy output
\* differs from the stored snapshot, the pass puts the descriptor into the
\* batch it emits and stores the new snapshot; a pass that reads the
\* descriptor while the file is unmodified since the previous read does not
\* put it into its batch.
C1_ChangeReportedOnce ==
  [][\A d \in 1..Len(file) :
       (IterateOn(d) /\ ReadsNow(d)) =>
          /\ ~BytesEqual(SnapshotNow(d), file[d].fileData) =>
                /\ event' = Append(event, d)
                /\ file'[d].fileData = SnapshotNow(d)
          /\ since[d] = "scan" => event' = event]_vars

(* ---- C2 ---- *)
\* C2: a pass that reads a descriptor whose file is unmodified since the
\* previous pass read it leaves the descriptor out of its batch.
C2_UnchangedNotReported ==
  [][\A d \in 1..Len(file) :
       (IterateOn(d) /\ since[d] = "scan") => ~(\E k \in 1..Len(event') : k > Len(event) /\ event'[k] = d)]_vars

(* ---- C3 ---- *)
\* C3: an Event being sent on the event channel has at least one file; a
\* pass whose batch is empty sends no Event.
C3_EventNeverEmpty ==
  pc = "sendEvent" => Len(event) >= 1

C3_Witness ==
  /\ pc = "sendEvent"
  /\ Len(event) >= 1
  /\ eventChan = "open"

(* ---- C4 ---- *)
\* C4: an iteration whose open or strategy fails sends the error on the
\* error channel and keeps the position and the batch of the pass; when the
\* error is received the pass goes on with the next descriptor, its batch
\* intact; every iteration that reads a changed descriptor appends it to the
\* batch, and the pass ends by sending the batch as its Event.
C4_FailureDoesNotAbortPass ==
  [][/\ \A d \in 1..Len(file) :
          /\ (IterateOn(d) /\ ~ReadsNow(d)) =>
                /\ pc' = "sendErr"
                /\ err' = ExamineResult(d).err
                /\ f' = d
                /\ rng' = rng
                /\ event' = event
          /\ (IterateOn(d) /\ ReadsNow(d)
                /\ ~BytesEqual(SnapshotNow(d), file[d].fileData)) =>
                /\ event' = Append(event, d)
                /\ rng' = [rng EXCEPT !.i = rng.i + 1]
                /\ pc' = "range"
     /\ RecvErr =>
          /\ pc' = "range"
          /\ rng' = [rng EXCEPT !.i = rng.i + 1]
          /\ event' = event
     /\ (pc = "range" /\ pc' # "range" /\ pc' # "sendErr") =>
          /\ rng.i = rng.len + 1
          /\ event' = event
          /\ event # <<>> => pc' = "sendEvent"]_vars

\* the error of one descriptor is being sent while the batch of the same
\* pass holds another descriptor, found changed
C4_Witness ==
  /\ pc = "sendErr"
  /\ errChan = "open"
  /\ Len(event) >= 1
  /\ \A k \in 1..Len(event) : event[k] # f

(* ---- C5 ---- *)
\* C5: an iteration whose open or strategy fails leaves every stored snapshot
\* as it was, as does the delivery of its error; an iteration that reads the
\* descriptor reports it exactly when the snapshot read differs from the
\* stored one.
C5_FailureKeepsSnapshot ==
  [][/\ \A d \in 1..Len(file) :
          /\ (IterateOn(d) /\ ~ReadsNow(d)) => (file' = file /\ event' = event)
          /\ (IterateOn(d) /\ ReadsNow(d)) =>
                ((event' = Append(event, d))
                   <=> ~BytesEqual(SnapshotNow(d), file[d].fileData))
     /\ (RecvErr \/ SendOnClosed) => file' = file]_vars

\* the error of a descriptor is being sent while its file differs from the
\* stored snapshot, which is not nil
C5_Witness ==
  /\ pc = "sendErr"
  /\ f # 0
  /\ file[f].fileData # Nil
  /\ disk[file[f].fileName] # RegularFile(file[f].fileData)

(* ---- C6 ---- *)
\* C6: once RemoveFile(d) has returned and the pass that was running at that
\* time is over, no error sent is the error of d and no Event sent holds d
\* (unless d is added again).
C6_RemovedNeverReferenced ==
  /\ pc = "sendErr" => removed[f] # "yes"
  /\ pc = "sendEvent" => \A k \in 1..Len(event) : removed[event[k]] # "yes"

(* ---- C7 ---- *)
\* C7: New given WithPollInterval(0) returns no Watchman.
C7_ZeroIntervalRejected ==
  (\E k \in 1..Len(opts) : opts[k] = 0) => ~constructed

(* ---- C8 ---- *)
\* C8: NewFile on a path that does not exist returns ErrInvalidFile and no
\* File, and a NewFile whose file cannot be read returns an error and no
\* File.
C8_MissingPathInvalidFile ==
  ret.fileName # "" =>
    /\ disk[ret.fileName] = Missing => (ret.err = ErrInvalidFile /\ ret.f = NoFile)
    /\ disk[ret.fileName] = Dir => (ret.err # NoErr /\ ret.f = NoFile)
    /\ ret.err # NoErr => ret.f = NoFile

(* ---- C9 ---- *)
\* C9: NewFile stores the strategy output of the file as it is at that time,
\* and the first pass that reads the descriptor while the file is unmodified
\* since NewFile leaves the descriptor out of its batch.
C9_NoEventOnFirstScan ==
  [][/\ \A p \in Paths :
          NewFile(p) => file'[Len(file')].fileData = ReadFile(disk[p]).data
     /\ \A d \in 1..Len(file) :
          (IterateOn(d) /\ since[d] = "construct") => event' = event]_vars

(* ---- C10 ---- *)
\* C10: once Stop has closed the stop channel the loop begins no pass, also
\* when a tick is ready together with the stop signal.
C10_StopBeforeTick ==
  [][stopChan = "closed" => ~SelectTick]_vars

(* ---- C11 ---- *)
\* the states of the lifecycle
Idle == ticker = "nil"
Running == ticker = "running" /\ pc \notin {"idle", "done", "panic"}
Stopped == ticker = "stopped"

\* C11: Stopped is terminal: no step of a stopped watcher, a further Start
\* included, makes it Running again or Idle again.
C11_StoppedIsTerminal ==
  [][Stopped => (~Running' /\ ~Idle')]_vars

(* ---- C12 ---- *)
\* a send of the scan loop is pending: w.errChan <- err or w.eventChan <- event
SendPending == err # NoErr \/ pc = "sendEvent"

\* C12: a send is a synchronous handoff: while a send is pending the loop
\* examines no descriptor, ends no pass and begins no pass, and it leaves the
\* send only when the consumer receives (or by the panic of a closed
\* channel); the receive lets the loop go on, with the next descriptor after
\* an error and with the select after an Event.
C12_SendBlocksLoop ==
  [][/\ SendPending =>
          /\ ~Iterate /\ ~EndRange /\ ~SelectTick /\ ~SelectStop
          /\ pc' # pc => (RecvErr \/ RecvEvent \/ SendOnClosed)
          /\ ~(RecvErr \/ RecvEvent \/ SendOnClosed) =>
                (rng'.i = rng.i /\ event' = event /\ SendPending')
     /\ RecvErr => (~SendPending' /\ pc' = "range" /\ rng'.i = rng.i + 1)
     /\ RecvEvent => (~SendPending' /\ pc' = "select")]_vars

\* a send is pending while a tick is ready and a descriptor is still to be
\* examined
C12_Witness ==
  /\ pc = "sendErr"
  /\ errChan = "open"
  /\ tick
  /\ rng.i < rng.len

(* ---- C13 ---- *)
\* C13: a loop that is blocked in a send when Stop is called leaves the send
\* only by the receive of a consumer: the pending value is delivered, and
\* the loop observes the stop afterwards.
C13_StopWaitsForDelivery ==
  [][/\ (Stop /\ pc = "sendErr") => errChan' = "open"
     /\ (Stop /\ pc = "sendEvent") => eventChan' = "open"
     /\ (pc \in {"sendErr", "sendEvent"} /\ stopChan = "closed") =>
           (pc' = pc \/ RecvErr \/ RecvEvent)]_vars

(* ---- C14 ---- *)
\* how often d occurs in the sequence s
Count(d, s) == Cardinality({k \in 1..Len(s) : s[k] = d})

C16_SnapshotWrittenByScanOnly ==
  [][/\ \A d \in 1..Len(file) :
          file'[d].fileData # file[d].fileData =>
             /\ IterateOn(d)
             /\ ReadsNow(d)
             /\ event' = Append(event, d)
     /\ (\/ \E d \in 1..Len(file) : AddFile(d) \/ RemoveFile(d) \/ GetTag(d)
         \/ \E d \in 1..Len(file), t \in Tags : SetTag(d, t)
         \/ \E t \in Tags : Find(t)) =>
           \A d \in 1..Len(file) : file'[d] = file[d]]_vars

\* a descriptor with stored data has been tagged, found by Find, passed to
\* RemoveFile and to AddFile, and is in the batch being sent
C16_Witness ==
  \E d \in 1..Len(file) :
    /\ tag[d] = "t"
    /\ found = [call |-> "Find", tag |-> "", files |-> <<d>>]
    /\ removed[d] = "inflight"
    /\ Count(d, Registered) = 1
    /\ file[d].fileData # Nil
    /\ pc = "sendEvent"
    /\ event = <<d>>

(* ---- C17 ---- *)
\* C17: the scan loop never sends on a closed channel: it is at no send
\* whose channel Stop has closed, and it has not panicked.
C17_NoSendOnClosedChannel ==
  /\ ~(pc = "sendErr" /\ errChan = "closed")
  /\ ~(pc = "sendEvent" /\ eventChan = "closed")
  /\ pc # "panic"

(* ---- C18 ---- *)
\* C18: a pass that ends has examined every descriptor that was registered
\* when it began and was not passed to RemoveFile while it ran, whatever
\* AddFile and RemoveFile calls on other descriptors ran meanwhile.
C18_StayedIsExamined ==
  [][EndRange => \A d \in pass.stayed : d \in Range(pass.seen)]_vars

(* ---- C19 ---- *)
\* C19: the batch of a pass holds every descriptor at most once, also when
\* the descriptor was added to the registry more than once.
C19_NoDuplicateInBatch ==
  \A j, k \in 1..Len(event) : j # k => event[j] # event[k]

(* ---- C20 ---- *)
\* C20: the outputs of the passes are ordered: an error is sent from inside
\* the range loop; the Event of a pass is sent only when the range loop is
\* over, every element examined and every error of the pass received; and
\* the next pass begins, so sends anything, only from the select, after the
\* Event of the pass before it has been received.
C20_OutputsInOrder ==
  [][/\ (pc' = "sendErr" /\ pc # "sendErr") => (Iterate /\ rng.i <= rng.len)
     /\ (pc' = "sendEvent" /\ pc # "sendEvent") =>
           /\ EndRange
           /\ Len(pass.seen) = rng.len
           /\ err = NoErr
     /\ pc = "sendEvent" => (rng = NoRange /\ err = NoErr)
     /\ SelectTick => (pc = "select" /\ event = <<>> /\ err = NoErr)
     /\ (pc = "sendEvent" /\ pc' # "sendEvent") => (RecvEvent \/ SendOnClosed)]_vars

\* a pass is at the end of its range loop with an error sent and received
\* and a batch to send
C20_Witness ==
  /\ pc = "range"
  /\ rng.i > rng.len
  /\ Len(pass.errs) >= 1
  /\ Len(event) >= 1
  /\ err = NoErr
  /\ eventChan = "open"

====
